---- MODULE Spec2Model ----
(***************************************************************************)
(* A model of geotiff_to_gsb.py: the script that converts a geoid GeoTIFF  *)
(* (with two optional deflection-of-vertical companions) to an NTv2 asc or *)
(* gsb file or to a WINTER .dat file.                                      *)
(*                                                                         *)
(* Numbers.  Angles are integers: a geotransform component is a pair       *)
(* [u, e], u in units of 1/UnitsPerSec arc-second and e an offset in units *)
(* of 1e-12 degree (the scale of match_precision); header angles are in    *)
(* units of 1/UnitsPerSec arc-second; the seconds of a DMSAngle are in     *)
(* units of 1/SecScale second.  A raster sample is [nan, v].               *)
(* Text.  A string the script slices, pads or justifies is a sequence of   *)
(* one-character strings.                                                  *)
(***************************************************************************)
EXTENDS Integers, Sequences, FiniteSets, TLC

VARIABLES
    output_type,    \* 'asc', 'gsb' or 'winter' (line 15)
    tif_nval,       \* the primary GeoTIFF on disk: [kind, H, W, gt, phase]
    tif_dov_pm,     \* the meridian companion on disk: [kind, H, W, gt, phase]
    tif_dov_pv,     \* the prime-vertical companion on disk
    cfg,            \* the metadata strings of lines 35-46, the file stem, print_tif_metadata
    pc,             \* the script's position
    read_dov,       \* line 58
    opened,         \* the datasets gdal.Open has returned
    grid_mismatch,  \* the list of line 156
    ext,            \* gs_count, lat_inc, lon_inc, n_lat, s_lat, e_lon, w_lon (lines 179-185)
    bands,          \* the arrays ReadAsArray has returned
    y,              \* the row of the node loop
    x,              \* the column of the node loop
    fs,             \* the output files: fs[t] is the sequence of records written to out_file of type t
    created_out,    \* the output types whose out_file has been opened for writing
    angle           \* a DMSAngle handed to check_rounding: [degree, minute, second, positive, st]

vars == <<output_type, tif_nval, tif_dov_pm, tif_dov_pv, cfg, pc, read_dov, opened,
          grid_mismatch, ext, bands, y, x, fs, created_out, angle>>

-----------------------------------------------------------------------------
(* Bounds of the model *)

MaxDim == 3
MaxStemLen == 13

-----------------------------------------------------------------------------
(* Program constants *)

num_orec == 11
num_srec == 11
num_file == 1
null_node_val == -999
match_precision == 10
UnitsPerSec == 2
SecScale == 10000

OutputTypes == {"asc", "gsb", "winter"}

\* str -> sequence of characters, for the literals of the script
gs_type_default == <<"S","E","C","O","N","D","S"," ">>
version_default == <<"1",".","0",".","0",".","0"," ">>
system_f_default == <<"G","D","A","2","0","2","0"," ">>
system_t_default == <<"A","H","D"," "," "," "," "," ">>
sub_name_default == <<"A","U","S","G","E","O","I","D">>
parent_default == <<"N","O","N","E"," "," "," "," ">>
created_default == <<"1","8","0","6","2","0","2","4">>
updated_default == <<"1","8","0","6","2","0","2","4">>
attribution == <<"w","w","w",".","g","a",".","g","o","v",".","a","u">>
win_suffix == <<"_","w","i","n",".","d","a","t">>

-----------------------------------------------------------------------------
(* Arithmetic *)

Abs(n) == IF n < 0 THEN -n ELSE n

\* Python's round(n/d, 0) for d > 0: to the nearest integer, a tie to the even one
RoundHalfEven(n, d) ==
    LET q == n \div d
        r == n % d
    IN  IF 2 * r < d THEN q
        ELSE IF 2 * r > d THEN q + 1
        ELSE IF q % 2 = 0 THEN q ELSE q + 1

Deg(d) == d * 3600 * UnitsPerSec

-----------------------------------------------------------------------------
(* Text *)

Spaces(n) == [i \in 1..n |-> " "]

\* s[:n]
Take(s, n) == IF Len(s) <= n THEN s ELSE SubSeq(s, 1, n)

\* f'{s:Ns}': left-justified in n columns, never cut
PadRight(s, n) == IF Len(s) >= n THEN s ELSE s \o Spaces(n - Len(s))

\* f'{s:>Ns}': right-justified in n columns, never cut
PadLeft(s, n) == IF Len(s) >= n THEN s ELSE Spaces(n - Len(s)) \o s

\* struct.pack('8s', b): exactly 8 bytes, cut or filled with NUL
Pack8s(s) == IF Len(s) >= 8 THEN SubSeq(s, 1, 8) ELSE s \o [i \in 1..(8 - Len(s)) |-> "NUL"]

-----------------------------------------------------------------------------
(* The GeoTIFFs on disk *)

GtComp(u, e) == [u |-> u, e |-> e]

\* (x_ul, x_int, x_rot, y_ul, y_rot, y_int): 1 arc-second pixels, no rotation
GtNorthUp == << GtComp(Deg(-147), 0), GtComp(UnitsPerSec, 0), GtComp(0, 0),
                GtComp(Deg(-34), 0), GtComp(0, 0), GtComp(-UnitsPerSec, 0) >>

\* a geotransform whose six components all differ
GtDistinct == << GtComp(Deg(-147), 0), GtComp(UnitsPerSec, 0), GtComp(1, 0),
                 GtComp(Deg(-34), 0), GtComp(-1, 0), GtComp(-UnitsPerSec, 0) >>

GtOf(x0, dx, y0, dy) == << GtComp(x0, 0), GtComp(dx, 0), GtComp(0, 0),
                           GtComp(y0, 0), GtComp(0, 0), GtComp(dy, 0) >>

\* component k (1..6) moved by d units of 1e-12 degree
Perturb(gt, k, d) == [gt EXCEPT ![k] = GtComp(@.u, @.e + d)]

Raster(h, w, gt, phase) == [kind |-> "file", H |-> h, W |-> w, gt |-> gt, phase |-> phase]
NotOnDisk == [kind |-> "missing", H |-> 0, W |-> 0, gt |-> GtNorthUp, phase |-> 0]
Directory == [kind |-> "dir", H |-> 0, W |-> 0, gt |-> GtNorthUp, phase |-> 0]

\* pathlib.Path.is_file / exists / is_dir
IsFile(f) == f.kind = "file"
Exists(f) == f.kind # "missing"
IsDir(f) == f.kind = "dir"

NaN == [nan |-> TRUE, v |-> 0]
Num(v) == [nan |-> FALSE, v |-> v]

\* The sample of band 1 at [yy][xx] (0-based).  Along the raster the cells are in
\* turn NaN, the value null_node_val and a value of their own; ch tells the
\* three rasters' values apart.
Sample(r, ch, yy, xx) ==
    LET idx == yy * r.W + xx
        k == (idx + r.phase) % 3
    IN  IF k = 0 THEN NaN
        ELSE IF k = 1 THEN Num(null_node_val)
        ELSE Num(10 * (idx + 1) + ch)

\* values[yy][xx] raises IndexError outside the array
InArray(r, yy, xx) == yy >= 0 /\ yy < r.H /\ xx >= 0 /\ xx < r.W

-----------------------------------------------------------------------------
(* functions *)

\* A slip in check_nan: the input returned whatever it is
check_nan_unchecked(in_val, nan_val) == in_val

\* check_nan(in_val, nan_val)
check_nan(in_val, nan_val) == IF in_val.nan THEN nan_val ELSE in_val

\* round(second, 3), in thousandths of a second
Round3(second) == RoundHalfEven(second, SecScale \div 1000)

\* abs(round(second, 3) - 60.0) < 10**-3 in IEEE doubles: 0.0 for 60.000, and
\* 0.0009999999999976694 for 59.999 and for 60.001, all below 0.001
RoundsToSixty(second) == Abs(Round3(second) - 60000) <= 1

\* check_rounding(dms_angle, precision=3): the DMSAngle after the call
check_rounding(a) ==
    IF RoundsToSixty(a.second)
    THEN LET m1 == a.minute + 1
             carry == m1 >= 60
             m2 == IF carry THEN m1 - 60 ELSE m1
             d1 == IF carry THEN a.degree + 1 ELSE a.degree
             d2 == IF carry /\ d1 >= 360 THEN d1 - 360 ELSE d1
         IN  [a EXCEPT !.second = 0, !.minute = m2, !.degree = d2]
    ELSE a

\* gc.dec2dms(dec), dec in units of 1/UnitsPerSec arc-second
dec2dms(dec) ==
    LET t == Abs(dec)
    IN  [degree |-> t \div Deg(1),
         minute |-> (t % Deg(1)) \div (60 * UnitsPerSec),
         second |-> (t % (60 * UnitsPerSec)) * (SecScale \div UnitsPerSec),
         positive |-> dec >= 0]

-----------------------------------------------------------------------------
(* validate geotiff grids of similar size/interval *)

\* tuple.index(v): the first position holding a value equal to v
TupleIndex(t, v) == CHOOSE j \in 1..Len(t) : t[j] = v /\ \A i \in 1..(j - 1) : t[i] # v

\* abs(a - b) > match_precision
ExceedsPrecision(a, b) == a.u # b.u \/ Abs(a.e - b.e) > match_precision

MismatchStr(other, k, a, b) == [file |-> "nval", other |-> other, index |-> k - 1, vals |-> <<a, b>>]

\* the loop of lines 157-165 from position i of gt_n_extents on
RECURSIVE MismatchFrom(_, _, _, _)
MismatchFrom(i, n, pm, pv) ==
    IF i > Len(n) THEN <<>>
    ELSE LET k == TupleIndex(n, n[i])
             m1 == IF ExceedsPrecision(n[i], pm[k])
                   THEN << MismatchStr("dov_pm", k, n[i], pm[k]) >> ELSE <<>>
             m2 == IF ExceedsPrecision(n[i], pv[k])
                   THEN << MismatchStr("dov_pv", k, n[i], pv[k]) >> ELSE <<>>
         IN  m1 \o m2 \o MismatchFrom(i + 1, n, pm, pv)

-----------------------------------------------------------------------------
(* compute grid extents *)

\* A slip in gs_count: the width counted twice
GsCountSquare(r) == r.W * r.W

\* gs_count (line 179)
GsCount(r) == r.W * r.H

GridExtents(r) ==
    LET x_ul == r.gt[1].u
        x_int == r.gt[2].u
        y_ul == r.gt[4].u
        y_int == r.gt[6].u
        lat_inc == RoundHalfEven(Abs(y_int), UnitsPerSec) * UnitsPerSec
        lon_inc == RoundHalfEven(x_int, UnitsPerSec) * UnitsPerSec
    IN  [gs_count |-> GsCount(r),
         lat_inc |-> lat_inc,
         lon_inc |-> lon_inc,
         n_lat |-> RoundHalfEven(y_ul, Deg(1)) * Deg(1),
         s_lat |-> y_ul - (r.H - 1) * lat_inc,
         e_lon |-> (-x_ul) - (r.W - 1) * lon_inc,
         w_lon |-> -x_ul]

NoExtents == [gs_count |-> 0, lat_inc |-> 0, lon_inc |-> 0, n_lat |-> 0, s_lat |-> 0,
              e_lon |-> 0, w_lon |-> 0]

-----------------------------------------------------------------------------
(* write to file: the records *)

grs80_semimaj == "gg.grs80.semimaj"
grs80_semimin == "gg.grs80.semimin"

\* One header record: the key, the type of its value and the value as written
Hdr(key, t, v) == [kind |-> "hdr", key |-> key, t |-> t, v |-> v]

\* f'{s:>8s}' (lines 222-225)
AscOverviewStr(s) == PadLeft(s, 8)

\* f'{s:8s}' (lines 234-237)
AscSubStr(s) == PadRight(s, 8)

\* struct.pack('8s', bytes(f'{s[:8]:8s}', 'utf-8'))
GsbStr(s) == Pack8s(PadRight(Take(s, 8), 8))

\* asc_header and sub_header (lines 218-245)
AscHeader(c, e) ==
    << Hdr("NUM_OREC", "int", num_orec),
       Hdr("NUM_SREC", "int", num_srec),
       Hdr("NUM_FILE", "int", num_file),
       Hdr("GS_TYPE ", "str", AscOverviewStr(c.gs_type)),
       Hdr("VERSION ", "str", AscOverviewStr(c.version)),
       Hdr("SYSTEM_F", "str", AscOverviewStr(c.system_f)),
       Hdr("SYSTEM_T", "str", AscOverviewStr(c.system_t)),
       Hdr("MAJOR_F ", "axis", grs80_semimaj),
       Hdr("MINOR_F ", "axis", grs80_semimin),
       Hdr("MAJOR_T ", "axis", grs80_semimaj),
       Hdr("MINOR_T ", "axis", grs80_semimin),
       Hdr("SUB_NAME", "str", AscSubStr(c.sub_name)),
       Hdr("PARENT  ", "str", AscSubStr(c.parent)),
       Hdr("CREATED ", "str", AscSubStr(c.created)),
       Hdr("UPDATED ", "str", AscSubStr(c.updated)),
       Hdr("S_LAT   ", "float", e.s_lat),
       Hdr("N_LAT   ", "float", e.n_lat),
       Hdr("E_LONG  ", "float", e.e_lon),
       Hdr("W_LONG  ", "float", e.w_lon),
       Hdr("LAT_INC ", "float", e.lat_inc),
       Hdr("LONG_INC", "float", e.lon_inc),
       Hdr("GS_COUNT", "int", e.gs_count) >>

\* header_bytes and sub_header_bytes (lines 265-290)
GsbHeader(c, e) ==
    << Hdr("NUM_OREC", "int", num_orec),
       Hdr("NUM_SREC", "int", num_srec),
       Hdr("NUM_FILE", "int", num_file),
       Hdr("GS_TYPE ", "str", GsbStr(c.gs_type)),
       Hdr("VERSION ", "str", GsbStr(c.version)),
       Hdr("SYSTEM_F", "str", GsbStr(c.system_f)),
       Hdr("SYSTEM_T", "str", GsbStr(c.system_t)),
       Hdr("MAJOR_F ", "axis", grs80_semimaj),
       Hdr("MINOR_F ", "axis", grs80_semimin),
       Hdr("MAJOR_T ", "axis", grs80_semimaj),
       Hdr("MINOR_T ", "axis", grs80_semimin),
       Hdr("SUB_NAME", "str", GsbStr(c.sub_name)),
       Hdr("PARENT  ", "str", GsbStr(c.parent)),
       Hdr("CREATED ", "str", GsbStr(c.created)),
       Hdr("UPDATED ", "str", GsbStr(c.updated)),
       Hdr("S_LAT   ", "float", e.s_lat),
       Hdr("N_LAT   ", "float", e.n_lat),
       Hdr("E_LONG  ", "float", e.e_lon),
       Hdr("W_LONG  ", "float", e.w_lon),
       Hdr("LAT_INC ", "float", e.lat_inc),
       Hdr("LONG_INC", "float", e.lon_inc),
       Hdr("GS_COUNT", "int", e.gs_count) >>

\* out_file.name for output_type 'winter' (line 66)
WinterName(c) == c.stem \o win_suffix

\* f'{out_file.name[:20]}{"":20s}{"www.ga.gov.au":>21s}\n' (line 321)
WinterHeaderLine(name) == Take(name, 20) \o PadRight(<<>>, 20) \o PadLeft(attribution, 21)

WinterHeader(c) == << [kind |-> "line", text |-> WinterHeaderLine(WinterName(c))] >>

\* lat_str / lon_str (lines 327, 332): hemisphere letter, degree, minute and the
\* seconds as '6.3f' shows them, in thousandths
AngleStr(a, pos, neg) ==
    [hemi |-> IF a.positive THEN pos ELSE neg, degree |-> a.degree, minute |-> a.minute,
     sec3 |-> Round3(a.second)]

NoAngleStr == [hemi |-> "", degree |-> 0, minute |-> 0, sec3 |-> 0]

\* One node record: the channels in the order written; cell is the [y][x] the
\* loop was at when it wrote the record
Node(ch, lat, lon, cell) == [kind |-> "node", ch |-> ch, lat |-> lat, lon |-> lon, cell |-> cell]

\* f'{"END":10s}' (line 258)
AscEnd == [kind |-> "end", key |-> PadRight(<<"E","N","D">>, 10), v |-> ""]

\* struct.pack('8s', b'END     ') and struct.pack('d', 3.33e+32) (lines 315-316)
GsbEnd == [kind |-> "end", key |-> Pack8s(<<"E","N","D"," "," "," "," "," ">>), v |-> "3.33e+32"]

-----------------------------------------------------------------------------
(* write to file: the node loops *)

\* A slip in the asc and gsb loops: started at the first row and column
ReversedFirstFromZero(r) == <<0, 0>>

\* range(size - 1, -1, -1) of lines 248-249 and 295-296
ReversedFirst(r) == <<r.H - 1, r.W - 1>>
ReversedNext(r, yy, xx) == IF xx - 1 > -1 THEN <<yy, xx - 1>> ELSE <<yy - 1, r.W - 1>>
ReversedDone(r, yy) == ~(yy > -1)

\* range(0, size, +1) of lines 324 and 329
ForwardFirst(r) == <<0, 0>>
ForwardNext(r, yy, xx) == IF xx + 1 < r.W THEN <<yy, xx + 1>> ELSE <<yy + 1, 0>>
ForwardDone(r, yy) == ~(yy < r.H)

FirstCell(t, r) == IF t = "winter" THEN ForwardFirst(r) ELSE ReversedFirst(r)
NextCell(t, r, yy, xx) == IF t = "winter" THEN ForwardNext(r, yy, xx) ELSE ReversedNext(r, yy, xx)
LoopDone(t, r, yy) == IF t = "winter" THEN ForwardDone(r, yy) ELSE ReversedDone(r, yy)

\* The channels of the node at [yy][xx]: n_val, pm_val, pv_val
NVal(yy, xx) == check_nan(Sample(tif_nval, 0, yy, xx), Num(null_node_val))
PmVal(yy, xx) ==
    IF read_dov THEN check_nan(Sample(tif_dov_pm, 1, yy, xx), Num(null_node_val))
    ELSE Num(null_node_val)
PvVal(yy, xx) ==
    IF read_dov THEN check_nan(Sample(tif_dov_pv, 2, yy, xx), Num(null_node_val))
    ELSE Num(null_node_val)

\* n_val of the gsb loop, checked for NaN once more (lines 297-299)
GsbNVal(yy, xx) == IF NVal(yy, xx).nan THEN Num(null_node_val) ELSE NVal(yy, xx)

\* The node line of lines 250-256
AscNode(yy, xx) ==
    Node(<<NVal(yy, xx), PmVal(yy, xx), PvVal(yy, xx), Num(null_node_val)>>,
         NoAngleStr, NoAngleStr, <<yy, xx>>)

\* The data_bytes of lines 297-310
GsbNode(yy, xx) ==
    Node(<<GsbNVal(yy, xx), PmVal(yy, xx), PvVal(yy, xx), Num(null_node_val)>>,
         NoAngleStr, NoAngleStr, <<yy, xx>>)

\* The GEO line of lines 325-342
WinterNode(yy, xx) ==
    LET lat == check_rounding(dec2dms(tif_nval.gt[4].u + yy * tif_nval.gt[6].u))
        lon == check_rounding(dec2dms(tif_nval.gt[1].u + xx * tif_nval.gt[2].u))
    IN  Node(<<NVal(yy, xx), PmVal(yy, xx), PvVal(yy, xx)>>,
             AngleStr(lat, "N", "S"), AngleStr(lon, "E", "W"), <<yy, xx>>)

\* values_n[y][x], values_pm[y][x] or values_pv[y][x] raises IndexError
NodeRaises(yy, xx) ==
    \/ ~InArray(tif_nval, yy, xx)
    \/ read_dov /\ ~(InArray(tif_dov_pm, yy, xx) /\ InArray(tif_dov_pv, yy, xx))

-----------------------------------------------------------------------------
(* The script, step by step *)

\* use dov files if they are available (line 58)
ReadDov == IsFile(tif_dov_pv) /\ IsFile(tif_dov_pv)

Terminal == {"exit", "crashed", "complete"}

\* intial processing (lines 58-78): read_dov, then the checks of the input file
InitialProcessing ==
    /\ pc = "start"
    /\ read_dov' = ReadDov
    /\ pc' = IF ~Exists(tif_nval) \/ IsDir(tif_nval) THEN "exit" ELSE "open"
    /\ UNCHANGED <<output_type, tif_nval, tif_dov_pm, tif_dov_pv, cfg, opened, grid_mismatch,
                   ext, bands, y, x, fs, created_out, angle>>

\* open files (lines 141-144): gdal.Open raises on a file that is not there
OpenFiles ==
    /\ pc = "open"
    /\ IF read_dov /\ ~IsFile(tif_dov_pm)
       THEN opened' = {"n"} /\ pc' = "crashed"
       ELSE IF read_dov /\ ~IsFile(tif_dov_pv)
       THEN opened' = {"n", "pm"} /\ pc' = "crashed"
       ELSE /\ opened' = IF read_dov THEN {"n", "pm", "pv"} ELSE {"n"}
            /\ pc' = "validate"
    /\ UNCHANGED <<output_type, tif_nval, tif_dov_pm, tif_dov_pv, cfg, read_dov, grid_mismatch,
                   ext, bands, y, x, fs, created_out, angle>>

\* validate geotiff grids of similar size/interval (lines 150-171)
Validate ==
    /\ pc = "validate"
    /\ grid_mismatch' = IF read_dov
                        THEN MismatchFrom(1, tif_nval.gt, tif_dov_pm.gt, tif_dov_pv.gt)
                        ELSE <<>>
    /\ pc' = IF grid_mismatch' # <<>> THEN "exit" ELSE "extents"
    /\ UNCHANGED <<output_type, tif_nval, tif_dov_pm, tif_dov_pv, cfg, read_dov, opened,
                   ext, bands, y, x, fs, created_out, angle>>

\* compute grid extents (lines 177-199)
ComputeExtents ==
    /\ pc = "extents"
    /\ ext' = GridExtents(tif_nval)
    /\ pc' = IF cfg.print_tif_metadata THEN "exit" ELSE "read"
    /\ UNCHANGED <<output_type, tif_nval, tif_dov_pm, tif_dov_pv, cfg, read_dov, opened,
                   grid_mismatch, bands, y, x, fs, created_out, angle>>

\* read in the geotiff values (lines 202-208)
ReadBands ==
    /\ pc = "read"
    /\ bands' = IF read_dov THEN {"n", "pm", "pv"} ELSE {"n"}
    /\ pc' = "write"
    /\ UNCHANGED <<output_type, tif_nval, tif_dov_pm, tif_dov_pv, cfg, read_dov, opened,
                   grid_mismatch, ext, y, x, fs, created_out, angle>>

\* open(out_file, ...) and the header writes (lines 217-246, 262-292, 320-321)
WriteHeaders ==
    /\ pc = "write"
    /\ created_out' = created_out \cup {output_type}
    /\ fs' = [fs EXCEPT ![output_type] =
                IF output_type = "asc" THEN AscHeader(cfg, ext)
                ELSE IF output_type = "gsb" THEN GsbHeader(cfg, ext)
                ELSE WinterHeader(cfg)]
    /\ y' = FirstCell(output_type, tif_nval)[1]
    /\ x' = FirstCell(output_type, tif_nval)[2]
    /\ pc' = IF LoopDone(output_type, tif_nval, y') THEN "end" ELSE "nodes"
    /\ UNCHANGED <<output_type, tif_nval, tif_dov_pm, tif_dov_pv, cfg, read_dov, opened,
                   grid_mismatch, ext, bands, angle>>

\* one pass of the inner node loop (lines 250-256, 297-312, 330-342)
WriteNode ==
    /\ pc = "nodes"
    /\ IF NodeRaises(y, x)
       THEN /\ pc' = "crashed"
            /\ UNCHANGED <<fs, y, x>>
       ELSE /\ fs' = [fs EXCEPT ![output_type] =
                        Append(@, IF output_type = "asc" THEN AscNode(y, x)
                                  ELSE IF output_type = "gsb" THEN GsbNode(y, x)
                                  ELSE WinterNode(y, x))]
            /\ y' = NextCell(output_type, tif_nval, y, x)[1]
            /\ x' = NextCell(output_type, tif_nval, y, x)[2]
            /\ pc' = IF LoopDone(output_type, tif_nval, y') THEN "end" ELSE "nodes"
    /\ UNCHANGED <<output_type, tif_nval, tif_dov_pm, tif_dov_pv, cfg, read_dov, opened,
                   grid_mismatch, ext, bands, created_out, angle>>

\* the END record and the closing of the file (lines 258, 315-316; none for winter)
WriteEnd ==
    /\ pc = "end"
    /\ fs' = [fs EXCEPT ![output_type] =
                IF output_type = "asc" THEN Append(@, AscEnd)
                ELSE IF output_type = "gsb" THEN Append(@, GsbEnd)
                ELSE @]
    /\ pc' = "complete"
    /\ UNCHANGED <<output_type, tif_nval, tif_dov_pm, tif_dov_pv, cfg, read_dov, opened,
                   grid_mismatch, ext, bands, y, x, created_out, angle>>

\* The user sets output_type (line 15) to a type not yet written and runs the
\* script again on the same files
Relaunch ==
    /\ pc \in Terminal
    /\ \E t \in OutputTypes \ created_out :
          /\ t # output_type
          /\ output_type' = t
    /\ pc' = "start"
    /\ read_dov' = FALSE
    /\ opened' = {}
    /\ grid_mismatch' = <<>>
    /\ ext' = NoExtents
    /\ bands' = {}
    /\ y' = 0
    /\ x' = 0
    /\ UNCHANGED <<tif_nval, tif_dov_pm, tif_dov_pv, cfg, fs, created_out, angle>>

\* check_rounding(dms_angle=..., precision=3) on an angle of its own (lines 326, 331)
CheckRounding ==
    /\ angle.st = "made"
    /\ angle' = [angle EXCEPT !.dms = check_rounding(@), !.st = "checked"]
    /\ UNCHANGED <<output_type, tif_nval, tif_dov_pm, tif_dov_pv, cfg, pc, read_dov, opened,
                   grid_mismatch, ext, bands, y, x, fs, created_out>>

\* lat_str of line 327 for that angle
FormatAngle ==
    /\ angle.st = "checked"
    /\ angle' = [angle EXCEPT !.str = AngleStr(angle.dms, "N", "S"), !.st = "formatted"]
    /\ UNCHANGED <<output_type, tif_nval, tif_dov_pm, tif_dov_pv, cfg, pc, read_dov, opened,
                   grid_mismatch, ext, bands, y, x, fs, created_out>>

-----------------------------------------------------------------------------
(* Initial states *)

DefaultCfg ==
    [gs_type |-> gs_type_default, version |-> version_default, system_f |-> system_f_default,
     system_t |-> system_t_default, sub_name |-> sub_name_default, parent |-> parent_default,
     created |-> created_default, updated |-> updated_default,
     stem |-> <<"g","e","o","i","d">>, print_tif_metadata |-> FALSE]

Dms(d, m, sec, pos) == [degree |-> d, minute |-> m, second |-> sec, positive |-> pos]

NoAngle == [arg |-> Dms(0, 0, 0, TRUE), dms |-> Dms(0, 0, 0, TRUE), str |-> NoAngleStr, st |-> "idle"]

\* The state of a process that has not run yet
Fresh ==
    /\ read_dov = FALSE
    /\ opened = {}
    /\ grid_mismatch = <<>>
    /\ ext = NoExtents
    /\ bands = {}
    /\ y = 0
    /\ x = 0
    /\ fs = [t \in OutputTypes |-> <<>>]
    /\ created_out = {}

Dims == 1..MaxDim

\* Rasters of every size and content; companions present or not, of every size
Init ==
    /\ output_type \in OutputTypes
    /\ tif_nval \in {Raster(h, w, GtNorthUp, p) : h \in Dims, w \in Dims, p \in 0..2}
                       \cup {NotOnDisk, Directory}
    /\ tif_dov_pm \in {Raster(h, w, GtNorthUp, 1) : h \in Dims, w \in Dims} \cup {NotOnDisk}
    /\ tif_dov_pv \in {Raster(h, w, GtNorthUp, 2) : h \in Dims, w \in Dims} \cup {NotOnDisk}
    /\ cfg \in {[DefaultCfg EXCEPT !.print_tif_metadata = b] : b \in BOOLEAN}
    /\ pc = "start"
    /\ angle = NoAngle
    /\ Fresh

Next ==
    \/ InitialProcessing
    \/ OpenFiles
    \/ Validate
    \/ ComputeExtents
    \/ ReadBands
    \/ WriteHeaders
    \/ WriteNode
    \/ WriteEnd

Spec == Init /\ [][Next]_vars

\* One input file, companions that agree with it or differ in one geotransform
\* component of one of them, by at most or by more than match_precision
InitValidate ==
    /\ output_type \in OutputTypes
    /\ \E g \in {GtNorthUp, GtDistinct} :
          /\ tif_nval = Raster(1, 1, g, 2)
          /\ \E k \in 1..6, d \in {-11, 0, 10, 11}, which \in {"pm", "pv"} :
                /\ tif_dov_pm = Raster(1, 1, IF which = "pm" THEN Perturb(g, k, d) ELSE g, 1)
                /\ tif_dov_pv = Raster(1, 1, IF which = "pv" THEN Perturb(g, k, d) ELSE g, 2)
    /\ cfg = DefaultCfg
    /\ pc = "start"
    /\ angle = NoAngle
    /\ Fresh

SpecValidate == InitValidate /\ [][Next]_vars

\* A file stem of n characters
Stem(n) == [i \in 1..n |-> IF i % 2 = 1 THEN "g" ELSE "d"]

\* Metadata strings of 8 characters, of fewer and of more; file names of fewer
\* than 20 characters and of more
InitHeaders ==
    /\ output_type \in OutputTypes
    /\ tif_nval = Raster(1, 2, GtNorthUp, 0)
    /\ tif_dov_pm = Raster(1, 2, GtNorthUp, 1)
    /\ tif_dov_pv = Raster(1, 2, GtNorthUp, 2)
    /\ cfg \in {[DefaultCfg EXCEPT !.system_t = a, !.sub_name = b, !.stem = Stem(n)] :
                  a \in {system_t_default, <<"A","H","D">>,
                         <<"A","H","D","_","T","A","S","8","3">>},
                  b \in {sub_name_default, <<"A","G","2","0">>,
                         <<"A","U","S","G","E","O","I","D","2","0","2","0">>},
                  n \in 1..MaxStemLen}
    /\ pc = "start"
    /\ angle = NoAngle
    /\ Fresh

NextRelaunch == Next \/ Relaunch

SpecHeaders == InitHeaders /\ [][NextRelaunch]_vars

\* Rasters of every size whose origin and pixel sizes vary: whole and fractional
\* degrees, whole and half arc-seconds, either sign
InitExtent ==
    /\ output_type \in OutputTypes
    /\ tif_nval \in {Raster(h, w, GtOf(x0, dx, y0, dy), 2) :
                        h \in Dims, w \in Dims,
                        x0 \in {Deg(-147), Deg(-147) + 1, Deg(147)},
                        dx \in {1, UnitsPerSec, 3, -UnitsPerSec},
                        y0 \in {Deg(-34), Deg(-34) + (Deg(1) \div 2), Deg(-34) + 1, Deg(34) - 1},
                        dy \in {-1, -UnitsPerSec, -3, UnitsPerSec}}
    /\ tif_dov_pm = NotOnDisk
    /\ tif_dov_pv = NotOnDisk
    /\ cfg = DefaultCfg
    /\ pc = "start"
    /\ angle = NoAngle
    /\ Fresh

SpecExtent == InitExtent /\ [][Next]_vars

\* Angles as dec2dms may hand them to check_rounding: seconds in [0, 60)
InitRounding ==
    /\ output_type = "winter"
    /\ tif_nval = NotOnDisk
    /\ tif_dov_pm = NotOnDisk
    /\ tif_dov_pv = NotOnDisk
    /\ cfg = DefaultCfg
    /\ pc = "idle"
    /\ \E d \in {0, 12, 358, 359}, m \in {0, 30, 58, 59}, pos \in BOOLEAN,
          sec \in {0, 4, 5, 6, 300000, 599980, 599984, 599985, 599986, 599990, 599994,
                   599995, 599996, 599999} :
          angle = [arg |-> Dms(d, m, sec, pos), dms |-> Dms(d, m, sec, pos),
                   str |-> NoAngleStr, st |-> "made"]
    /\ Fresh

NextRounding == CheckRounding \/ FormatAngle

SpecRounding == InitRounding /\ [][NextRounding]_vars

-----------------------------------------------------------------------------
(* Reading the files back *)

NodesOf(f) == SelectSeq(f, LAMBDA rec : rec.kind = "node")
HdrsOf(f) == SelectSeq(f, LAMBDA rec : rec.kind = "hdr")

Blank(c) == c = " " \/ c = "NUL"

RECURSIVE StripLeft(_)
StripLeft(str) == IF str # <<>> /\ Blank(Head(str)) THEN StripLeft(Tail(str)) ELSE str

RECURSIVE StripRight(_)
StripRight(str) ==
    IF str # <<>> /\ Blank(str[Len(str)]) THEN StripRight(SubSeq(str, 1, Len(str) - 1)) ELSE str

\* The value of a string field, whatever columns or bytes frame it
Strip(str) == StripLeft(StripRight(str))

\* A written sample as the rule for NaN wants it
Sanitized(sample) == IF sample.nan THEN Num(null_node_val) ELSE sample

\* The script is past the validation of the geotransforms
PastValidation == pc \in {"extents", "read", "write", "nodes", "end", "complete"}

-----------------------------------------------------------------------------
(* C1 *)

Differs(other, k) == ExceedsPrecision(tif_nval.gt[k], other.gt[k])

Reported(name, k) ==
    \E i \in 1..Len(grid_mismatch) :
        /\ grid_mismatch[i].index = k - 1
        /\ grid_mismatch[i].file = "nval"
        /\ grid_mismatch[i].other = name

\* C1: with both companions in use, the run proceeds to the encoding when all six
\* geotransform components of both companions agree with the primary's within
\* match_precision, and when component k of a companion differs by more the run
\* stops with nothing written and the report names index k and the two files.
C1_ValidationComparesEachComponent ==
    (read_dov /\ opened = {"n", "pm", "pv"} /\ pc \notin {"validate"}) =>
        /\ (\A k \in 1..6 : ~Differs(tif_dov_pm, k) /\ ~Differs(tif_dov_pv, k)) =>
              (grid_mismatch = <<>> /\ PastValidation)
        /\ \A k \in 1..6 :
              /\ Differs(tif_dov_pm, k) =>
                    (pc = "exit" /\ created_out = {} /\ Reported("dov_pm", k))
              /\ Differs(tif_dov_pv, k) =>
                    (pc = "exit" /\ created_out = {} /\ Reported("dov_pv", k))

-----------------------------------------------------------------------------
(* C2 *)

\* The cell of the k-th node (k from 0) in rows and columns last to first
CellReversed(k) == <<tif_nval.H - 1 - (k \div tif_nval.W), tif_nval.W - 1 - (k % tif_nval.W)>>

\* The cell of the k-th node (k from 0) in rows and columns first to last
CellForward(k) == <<k \div tif_nval.W, k % tif_nval.W>>

AllCells == {<<r, c>> : r \in 0..(tif_nval.H - 1), c \in 0..(tif_nval.W - 1)}

\* C2: the k-th node of an asc or gsb file is cell (H-1 - k div W, W-1 - k mod W),
\* the k-th node of a winter file is cell (k div W, k mod W), and an encoder that
\* has left its node loop has written every cell exactly once.
C2_NodeOrder ==
    \A t \in created_out :
        LET nodes == NodesOf(fs[t])
        IN  /\ \A k \in 0..(Len(nodes) - 1) :
                  nodes[k + 1].cell = IF t = "winter" THEN CellForward(k) ELSE CellReversed(k)
            /\ (t = output_type /\ pc \in {"end", "complete"}) =>
                  \A c \in AllCells : Cardinality({i \in 1..Len(nodes) : nodes[i].cell = c}) = 1

\* A gsb file of a raster that is not square, complete, its first node the last cell
C2_Witness ==
    /\ pc = "complete"
    /\ output_type = "gsb"
    /\ tif_nval.H # tif_nval.W
    /\ NodesOf(fs["gsb"])[1].cell = <<tif_nval.H - 1, tif_nval.W - 1>>
    /\ Len(NodesOf(fs["gsb"])) = tif_nval.H * tif_nval.W

-----------------------------------------------------------------------------
(* C4 *)

\* C4: no channel of a written node is NaN; the first is the primary sample of
\* the node's cell, or null_node_val for NaN; the two deflection channels are the
\* companions' samples of that cell under the same rule when companions are in
\* use and null_node_val when not; the fourth channel of asc and gsb is
\* null_node_val; a sample equal to null_node_val is written as it is.
C4_ChannelsSanitized ==
    \A t \in created_out :
        LET nodes == NodesOf(fs[t])
        IN  \A i \in 1..Len(nodes) :
                LET n == nodes[i]
                    r == n.cell[1]
                    c == n.cell[2]
                IN  /\ \A j \in 1..Len(n.ch) : ~n.ch[j].nan
                    /\ n.ch[1] = Sanitized(Sample(tif_nval, 0, r, c))
                    /\ n.ch[2] = IF read_dov THEN Sanitized(Sample(tif_dov_pm, 1, r, c))
                                 ELSE Num(null_node_val)
                    /\ n.ch[3] = IF read_dov THEN Sanitized(Sample(tif_dov_pv, 2, r, c))
                                 ELSE Num(null_node_val)
                    /\ Len(n.ch) = IF t = "winter" THEN 3 ELSE 4
                    /\ t # "winter" => n.ch[4] = Num(null_node_val)

\* A node written with companions in use whose primary sample is NaN, and one
\* whose meridian sample is NaN while its primary sample is a number
C4_Witness ==
    /\ read_dov
    /\ output_type \in created_out
    /\ \E i \in 1..Len(NodesOf(fs[output_type])) :
          LET n == NodesOf(fs[output_type])[i]
          IN  /\ Sample(tif_nval, 0, n.cell[1], n.cell[2]).nan
              /\ n.ch[1] = Num(null_node_val)
    /\ \E i \in 1..Len(NodesOf(fs[output_type])) :
          LET n == NodesOf(fs[output_type])[i]
          IN  /\ Sample(tif_dov_pm, 1, n.cell[1], n.cell[2]).nan
              /\ ~Sample(tif_nval, 0, n.cell[1], n.cell[2]).nan
              /\ n.ch[1].v # null_node_val
              /\ n.ch[2] = Num(null_node_val)

-----------------------------------------------------------------------------
(* C7 *)

GsCountField(f) == SelectSeq(f, LAMBDA rec : rec.kind = "hdr" /\ rec.key = "GS_COUNT")

\* C7: the GS_COUNT written in the sub-grid header is width * height of the
\* primary raster, and an asc or gsb file written to completion holds that many
\* node records, all of them between the sub-grid header and the END record.
C7_NodeCount ==
    \A t \in created_out \cap {"asc", "gsb"} :
        LET f == fs[t]
            n == num_orec + num_srec
        IN  /\ Len(GsCountField(f)) = 1
            /\ GsCountField(f)[1].v = tif_nval.W * tif_nval.H
            /\ f[n].key = "GS_COUNT"
            /\ (t = output_type /\ pc = "complete") =>
                  /\ Len(f) = n + GsCountField(f)[1].v + 1
                  /\ f[Len(f)].kind = "end"
                  /\ \A i \in (n + 1)..(Len(f) - 1) : f[i].kind = "node"

\* An asc file written to completion for a raster of more than one row and column
C7_Witness ==
    /\ pc = "complete"
    /\ output_type = "asc"
    /\ tif_nval.W > 1
    /\ tif_nval.H > 1
    /\ Len(NodesOf(fs["asc"])) = tif_nval.W * tif_nval.H

-----------------------------------------------------------------------------
(* C8 *)

\* C8: every gsb file the program leaves behind ends with the record of key
\* 'END     ' and double 3.33e+32, written after all the nodes.
C8_GsbEndsWithTerminator ==
    ("gsb" \in created_out /\ output_type = "gsb" /\ pc \in Terminal) =>
        /\ fs["gsb"] # <<>>
        /\ fs["gsb"][Len(fs["gsb"])] = GsbEnd

-----------------------------------------------------------------------------
(* C10 *)

BothCompanions == IsFile(tif_dov_pm) /\ IsFile(tif_dov_pv)

\* C10: the companions are opened and used only when both files exist; otherwise
\* the run opens neither, skips the validation and writes null_node_val in both
\* deflection channels of every node.
C10_CompanionsOnlyWhenBoth ==
    /\ read_dov => BothCompanions
    /\ (~BothCompanions /\ pc # "start") =>
          /\ opened \subseteq {"n"}
          /\ pc # "crashed"
          /\ grid_mismatch = <<>>
          /\ \A t \in created_out :
                \A i \in 1..Len(NodesOf(fs[t])) :
                    /\ NodesOf(fs[t])[i].ch[2] = Num(null_node_val)
                    /\ NodesOf(fs[t])[i].ch[3] = Num(null_node_val)

-----------------------------------------------------------------------------
(* C3 *)

\* Two records that differ at most in how their value is framed
SameLogical(a, b) ==
    /\ a.kind = b.kind
    /\ a.kind = "hdr" =>
          /\ a.key = b.key
          /\ a.t = b.t
          /\ IF a.t = "str" THEN Strip(a.v) = Strip(b.v) ELSE a.v = b.v
    /\ a.kind = "node" => (a.ch = b.ch /\ a.cell = b.cell)
    /\ a.kind = "end" => Strip(a.key) = Strip(b.key)

Complete(f) == f # <<>> /\ f[Len(f)].kind = "end"

\* C3: the asc and the gsb file of the same rasters and configuration hold the
\* same logical records: the same 22 header fields in the same order with the
\* same key and value, then the same nodes, then an END record.
C3_AscGsbSameRecords ==
    (Complete(fs["asc"]) /\ Complete(fs["gsb"])) =>
        /\ Len(fs["asc"]) = Len(fs["gsb"])
        /\ Len(HdrsOf(fs["asc"])) = num_orec + num_srec
        /\ \A i \in 1..Len(fs["asc"]) : SameLogical(fs["asc"][i], fs["gsb"][i])

-----------------------------------------------------------------------------
(* C5 *)

\* The angle one minute on, its seconds 0
Carried(a) ==
    IF a.minute + 1 < 60 THEN [a EXCEPT !.second = 0, !.minute = a.minute + 1]
    ELSE [a EXCEPT !.second = 0, !.minute = 0, !.degree = (a.degree + 1) % 360]

\* C5: check_rounding at precision 3 carries an angle whose seconds round to
\* 60.000 into the next minute (and degree, 360 wrapping to 0) and leaves every
\* other angle unchanged; no string written shows seconds 60.000 or minutes 60.
C5_CheckRoundingCarriesOnlySixty ==
    /\ angle.st \in {"checked", "formatted"} =>
          angle.dms = IF Round3(angle.arg.second) = 60000 THEN Carried(angle.arg) ELSE angle.arg
    /\ angle.st = "formatted" => (angle.str.sec3 # 60000 /\ angle.str.minute # 60)

-----------------------------------------------------------------------------
(* C6 *)

Multiple(n, d) == IF d = 0 THEN n = 0 ELSE n % Abs(d) = 0

\* C6: the increments are not negative, north >= south, west >= east, and
\* north - south and west - east are whole multiples of the increments.
C6_ExtentInvariant ==
    (pc \in {"read", "write", "nodes", "end", "complete"}) =>
        /\ ext.lat_inc >= 0
        /\ ext.lon_inc >= 0
        /\ ext.n_lat >= ext.s_lat
        /\ ext.w_lon >= ext.e_lon
        /\ Multiple(ext.n_lat - ext.s_lat, ext.lat_inc)
        /\ Multiple(ext.w_lon - ext.e_lon, ext.lon_inc)

-----------------------------------------------------------------------------
(* C9 *)

\* C9: the winter header line is the file name in exactly 20 columns (cut or
\* padded), 20 blanks and the attribution right-justified in 21 columns: 61
\* characters for every file name.
C9_WinterHeaderLayout ==
    "winter" \in created_out =>
        LET line == fs["winter"][1].text
            name == WinterName(cfg)
        IN  /\ Len(line) = 61
            /\ SubSeq(line, 1, 20) = PadRight(Take(name, 20), 20)
            /\ SubSeq(line, 21, 40) = Spaces(20)
            /\ SubSeq(line, 41, 61) = PadLeft(attribution, 21)

====
